---- MODULE Spec2Model ----
(***************************************************************************)
(* Account lifecycle and JWT credential engine of login-example-go-part12. *)
(*                                                                         *)
(* auth/jwt_builder.go      : generateJWT, GenerateAccessToken,            *)
(*                            GenerateRefreshToken, parseRequest,          *)
(*                            parseJWT, GetUserIDFromJWT, SetAuthToContext *)
(* usecase/user_usecase.go  : PreRegister, preRegister, Activate, Login,   *)
(*                            Get, Refresh                                 *)
(* middleware, handler      : AuthMiddleware, GetMe                        *)
(*                                                                         *)
(* Time is counted in seconds, the precision of the iat/exp claims of a    *)
(* JWT.  The repository and entity packages are not part of the sources;   *)
(* their operations are modelled from the storage contract.                *)
(***************************************************************************)
EXTENDS Integers, FiniteSets, Sequences, TLC

(***************************************************************************)
(* Bounds of the model.                                                    *)
(***************************************************************************)
MaxUsers == 2
MaxTicks == 1
\* requests taken in one run
MaxRequests == 4

Emails    == {"a@x.com"}
\* passwords accounts are registered with, and passwords presented at login
Passwords == {"secret1"}
Attempts  == Passwords \cup {"wrong-pw"}
Secrets   == {"tokenAAA", "tokenBBB"}
Salts     == {"salt1", "salt2"}
\* what the two calls of createRandomString in one preRegister return: the
\* generator is read twice in a row, so a salt comes with its secret
Draws     == {[salt |-> "salt1", activeToken |-> "tokenAAA"],
              [salt |-> "salt2", activeToken |-> "tokenBBB"]}
\* how far the clock may move between two consecutive readings of
\* time.Now() inside one handler
Drift     == {0, 1}

(***************************************************************************)
(* Durations (time package) and the constants of auth/jwt_builder.go.      *)
(***************************************************************************)
Second == 1
Minute == 60 * Second
Hour   == 60 * Minute

expAccess  == 30 * Minute
expRefresh == 3 * 24 * Hour

issClaim        == "login-example"
accessSubClaim  == "access-token"
refreshSubClaim == "refresh-token"

\* window of Activate (user_usecase.go line 113)
activateWindow == 30 * Minute

\* steps by which the clock advances: short of, to and past the window of
\* Activate
Steps == {29 * Minute, 30 * Minute, 31 * Minute}

UserInactive == "inactive"
UserActive   == "active"

VARIABLES
    users,      \* the rows of the users table
    nextID,     \* next auto-increment id of the users table
    outbox,     \* activation mails delivered: how many, and the last one
    now,        \* the wall clock, in seconds
    ticks,      \* number of times the clock has advanced
    bearer,     \* access token held by the client (Authorization header)
    cookie,     \* cookie "refresh-token" held by the client
    res,        \* the request just served and what it returned
    calls,      \* the usecase calls in progress, one per worker
    requests,   \* number of requests taken
    overlapped  \* history: a request was taken while a call was in progress

vars == <<users, nextID, outbox, now, ticks, bearer, cookie, res, calls, requests, overlapped>>

(***************************************************************************)
(* Values.                                                                 *)
(***************************************************************************)
NoUser  == [id |-> 0, email |-> "", password |-> <<"", "">>, salt |-> "",
            activateToken |-> "", state |-> "", updatedAt |-> 0]
\* a claim value as jwt.Token.Get returns it: a Go value with a dynamic type
\* a float64 is written val + frac/10 (val - frac/10 below zero): val is
\* its integer part, frac the tenths after the point
Float64(n) == [type |-> "float64", val |-> n, frac |-> 0]
NoToken == [sig |-> "", iss |-> "", sub |-> "", iat |-> 0, exp |-> 0,
            user_id |-> [type |-> "nil", val |-> 0, frac |-> 0]]
NoCookie == [name |-> "", value |-> NoToken, expires |-> 0]
\* a request and its outcome:
\*   op, email, arg   the operation and its arguments; arg is the password,
\*                    the activation token, or where the client took the
\*                    JWT it sends from
\*   presented        the JWT sent
\*   at               the clock when the request arrived
\*   acct             the row the lookup of the request returned
\*   fault            the collaborator call that failed, if one did
\*   err, uid, tok, cookie   what came back ("" is no error)
\*   handled          GetMe: whether the handler behind the middleware ran
Result(op, email, arg, presented, at, acct, fault, err, uid, tok, ck, handled) ==
    [op |-> op, email |-> email, arg |-> arg, presented |-> presented,
     at |-> at, acct |-> acct,
     fault |-> IF err \in {"db error", "mail error", "sign error"} \/ fault = "GetByEmail"
               THEN fault ELSE "none",
     err |-> err, uid |-> uid, tok |-> tok, cookie |-> ck, handled |-> handled,
     salt |-> "", did |-> <<>>]
\* a PreRegister or Activate call in progress: its arguments, the
\* collaborator call it makes next (pc), the row its lookup returned (u),
\* the clock when it looked up (at) and the collaborator calls made, each
\* with whether it returned without error (did)
\* a collaborator call that returned without error, and one that did not
Ok(name) == <<name, TRUE>>
Failed(name) == <<name, FALSE>>
Workers == {1, 2}
Idle == [op |-> "", pc |-> "idle", email |-> "", pw |-> "", salt |-> "",
         activeToken |-> "", u |-> NoUser, at |-> 0, did |-> <<>>]
NoRes == Result("", "", "", NoToken, 0, NoUser, "none", "", 0, NoToken, NoCookie, FALSE)

(***************************************************************************)
(* entity.User (package entity)                                            *)
(***************************************************************************)
IsActive(u) == u.state = UserActive

\* the hash, or the error when hashing fails (failed)
CreateHashedPassword(pw, salt, failed) ==
    IF failed THEN [hashed |-> <<"", "">>, err |-> "hash error"]
    ELSE [hashed |-> <<pw, salt>>, err |-> ""]

\* "" when the password matches, the error otherwise
Authenticate(u, pw) ==
    IF CreateHashedPassword(pw, u.salt, FALSE).hashed = u.password
    THEN "" ELSE "authentication failed"

(***************************************************************************)
(* repository.IUserRepository (package repository) on a table `us`         *)
(***************************************************************************)
GetByEmail(us, email) ==
    IF \E u \in us : u.email = email
    THEN CHOOSE u \in us : u.email = email
    ELSE NoUser

RowsOf(us, email) == {r \in us : r.email = email}

\* what a lookup by email may return: a row of the email, whichever the
\* database finds when there are several, or no row
Lookup(us, email) == IF RowsOf(us, email) = {} THEN {NoUser} ELSE RowsOf(us, email)

\* the table as a lookup by email that returns u sees it
Seen(us, email, u) == {r \in us : r.email # email} \cup ({u} \ {NoUser})

Get(us, uid) ==
    IF \E u \in us : u.id = uid
    THEN CHOOSE u \in us : u.id = uid
    ELSE NoUser

Delete(us, uid) == {u \in us : u.id # uid}

RepoPreRegister(us, u, id, t) ==
    us \cup {[u EXCEPT !.id = id, !.updatedAt = t]}

RepoActivate(us, u, t) ==
    {IF r.id = u.id THEN [r EXCEPT !.state = UserActive, !.updatedAt = t] ELSE r : r \in us}

(***************************************************************************)
(* auth/jwt_builder.go                                                     *)
(***************************************************************************)
\* the user_id claim as it is written into the token: a JSON number
JSONNumber(n) == [type |-> "number", val |-> n, frac |-> 0]

\* tok.Get(userIDClaim) on a parsed token: [ok, v], a JSON number decodes
\* to a float64, a missing claim gives ok = FALSE
TokenGet(tok) ==
    CASE tok.user_id.type = "number" ->
             [ok |-> TRUE, v |-> [Float64(tok.user_id.val) EXCEPT !.frac = tok.user_id.frac]]
      [] tok.user_id.type = "nil"    -> [ok |-> FALSE, v |-> tok.user_id]
      [] OTHER                       -> [ok |-> TRUE, v |-> tok.user_id]

\* generateJWT reads the clock twice: t0 for iat, t1 for exp.  The subject
\* is accessSubClaim whatever subClaim is (line 78).
generateJWT(u, subClaim, exp, t0, t1) ==
    [sig |-> "RS256", iss |-> issClaim, sub |-> accessSubClaim,
     iat |-> t0, exp |-> t1 + exp, user_id |-> JSONNumber(u.id)]

GenerateAccessToken(u, t0, t1) == generateJWT(u, accessSubClaim, expAccess, t0, t1)

GenerateRefreshToken(u, t0, t1) == generateJWT(u, refreshSubClaim, expRefresh, t0, t1)

\* jwt.Parse / jwt.ParseRequest with WithKey, WithIssuer, WithSubject: the
\* signature verifies, iss and sub are the expected ones, iat is not in the
\* future and exp is after the time t of the call
Verify(tok, sub, t) ==
    /\ tok.sig = "RS256"
    /\ tok.iss = issClaim
    /\ tok.sub = sub
    /\ tok.iat <= t
    /\ t < tok.exp

parseRequest(tok, t) == Verify(tok, accessSubClaim, t)

parseJWT(tok, t) == Verify(tok, refreshSubClaim, t)

\* entity.UserID(uid) on a float64: the Go conversion of a floating-point
\* value to an integer type discards the fraction (truncation towards zero)
UserID(f) == f.val

\* the part SetAuthToContext and GetUserIDFromJWT share: the claim is read
\* and asserted to be a float64, then converted to entity.UserID
UserIDOf(tok) ==
    LET got == TokenGet(tok) IN
    IF ~got.ok THEN [err |-> "failed to get user_id from token", uid |-> 0]
    ELSE IF got.v.type # "float64" THEN [err |-> "get invalid user_id", uid |-> 0]
    ELSE [err |-> "", uid |-> UserID(got.v)]

SetAuthToContext(tok, t) ==
    IF ~parseRequest(tok, t) THEN [err |-> "failed to parse request", uid |-> 0]
    ELSE UserIDOf(tok)

GetUserIDFromJWT(tok, t) ==
    IF ~parseJWT(tok, t) THEN [err |-> "failed to parse token", uid |-> 0]
    ELSE UserIDOf(tok)

(***************************************************************************)
(* usecase/user_usecase.go.  PreRegister and Activate make several         *)
(* collaborator calls, with no transaction and no lock around them: they   *)
(* are given as what the call does at each of them.  Login, Refresh and    *)
(* Get read the table once: they are given the table, the request, the     *)
(* collaborator call that fails (fault) and the clock.                     *)
(***************************************************************************)
Faults == {"none", "GetByEmail", "Delete", "CreateHashedPassword", "PreRegister", "SendWithActivateToken",
           "Activate", "Get", "GenerateAccessToken", "GenerateRefreshToken"}

\* mail.IMailer (package mail): the mail is delivered
NoMail == [n |-> 0, email |-> "", token |-> ""]
SendWithActivateToken(box, email, token) ==
    [n |-> box.n + 1, email |-> email, token |-> token]

ErrNoRows == "sql: no rows in result set"
ErrDB     == "db error"
\* what generateJWT returns when building or signing the token fails
ErrSign   == "sign error"

\* the row preRegister builds from the request and its two random strings
\* (lines 55-70)
NewUser(email, hashed, salt, activeToken) ==
    [NoUser EXCEPT !.email = email, !.salt = salt,
                   !.password = hashed,
                   !.activateToken = activeToken,
                   !.state = UserInactive]

\* PreRegister without the IsActive check of line 42
PreRegister_NoActiveCheck(u, failed) ==
    IF failed THEN [pc |-> "return", err |-> ErrDB]
    ELSE IF u = NoUser THEN [pc |-> "PreRegister", err |-> ""]
    ELSE [pc |-> "Delete", err |-> ""]

\* PreRegister that takes every failed lookup for "no such account"
PreRegister_AnyErrorIsNotFound(u, failed) ==
    IF failed \/ u = NoUser THEN [pc |-> "PreRegister", err |-> ""]
    ELSE IF IsActive(u) THEN [pc |-> "return", err |-> "user already active"]
    ELSE [pc |-> "Delete", err |-> ""]

\* PreRegister that mails a new secret to an address that is already active
PreRegister_MailsActive(u, failed) ==
    IF failed THEN [pc |-> "return", err |-> ErrDB]
    ELSE IF u = NoUser THEN [pc |-> "PreRegister", err |-> ""]
    ELSE IF IsActive(u) THEN [pc |-> "SendWithActivateToken", err |-> ""]
    ELSE [pc |-> "Delete", err |-> ""]

\* PreRegister without the Delete of line 47
PreRegister_NoDelete(u, failed) ==
    IF failed THEN [pc |-> "return", err |-> ErrDB]
    ELSE IF u = NoUser THEN [pc |-> "PreRegister", err |-> ""]
    ELSE IF IsActive(u) THEN [pc |-> "return", err |-> "user already active"]
    ELSE [pc |-> "PreRegister", err |-> ""]

\* userUsecase.PreRegister once uu.ur.GetByEmail has returned (lines 31-50):
\* u is the row it returned (NoUser with sql.ErrNoRows), failed tells that
\* it returned another error.  The result is the collaborator call made
\* next (ur.Delete, ur.PreRegister), or the error returned.
PreRegister(u, failed) ==
    IF failed THEN [pc |-> "return", err |-> ErrDB]
    ELSE IF u = NoUser THEN [pc |-> "PreRegister", err |-> ""]
    ELSE IF IsActive(u) THEN [pc |-> "return", err |-> "user already active"]
    ELSE [pc |-> "Delete", err |-> ""]

\* preRegister up to uu.ur.PreRegister (lines 58-75): the password is
\* hashed and the row is inserted, or the error of the hashing (before any
\* insert is tried) or of the insert is returned; fault names the one that
\* fails, did is the collaborator call made
preRegister(us, id, email, pw, salt, activeToken, fault, t) ==
    LET h == CreateHashedPassword(pw, salt, fault = "CreateHashedPassword") IN
    IF h.err # ""
    THEN [pc |-> "return", err |-> h.err, users |-> us, nextID |-> id, did |-> <<>>]
    ELSE IF fault = "PreRegister"
    THEN [pc |-> "return", err |-> ErrDB, users |-> us, nextID |-> id,
          did |-> <<Failed("PreRegister")>>]
    ELSE [pc |-> "SendWithActivateToken", err |-> "",
          users |-> RepoPreRegister(us, NewUser(email, h.hashed, salt, activeToken), id, t),
          nextID |-> id + 1, did |-> <<Ok("PreRegister")>>]

\* the mail of preRegister that takes the row back when it cannot be sent
preRegisterMail_Rollback(us, box, email, activeToken, failed) ==
    IF failed
    THEN [err |-> "mail error", users |-> {r \in us : r.email # email}, outbox |-> box]
    ELSE [err |-> "", users |-> us,
          outbox |-> SendWithActivateToken(box, email, activeToken)]

\* preRegister at uu.mailer.SendWithActivateToken (lines 77-80): the row
\* inserted before stays, whether the mail is sent or not
preRegisterMail(us, box, email, activeToken, failed) ==
    IF failed
    THEN [err |-> "mail error", users |-> us, outbox |-> box]
    ELSE [err |-> "", users |-> us,
          outbox |-> SendWithActivateToken(box, email, activeToken)]

\* Activate with the token compared before the account state
Activate_TokenFirst(u, token, failed, t) ==
    IF failed THEN [pc |-> "return", err |-> ErrDB]
    ELSE IF u = NoUser THEN [pc |-> "return", err |-> ErrNoRows]
    ELSE IF token # u.activateToken THEN [pc |-> "return", err |-> "invalid token"]
    ELSE IF IsActive(u) THEN [pc |-> "return", err |-> "user already active"]
    ELSE IF ~(u.updatedAt + activateWindow > t) THEN [pc |-> "return", err |-> "token expired"]
    ELSE [pc |-> "Activate", err |-> ""]

\* Activate with the window closed after, not at, 30 minutes
Activate_Inclusive(u, token, failed, t) ==
    IF failed THEN [pc |-> "return", err |-> ErrDB]
    ELSE IF u = NoUser THEN [pc |-> "return", err |-> ErrNoRows]
    ELSE IF IsActive(u) THEN [pc |-> "return", err |-> "user already active"]
    ELSE IF token # u.activateToken THEN [pc |-> "return", err |-> "invalid token"]
    ELSE IF ~(u.updatedAt + activateWindow >= t) THEN [pc |-> "return", err |-> "token expired"]
    ELSE [pc |-> "Activate", err |-> ""]

\* userUsecase.Activate once uu.ur.GetByEmail has returned (lines 97-115),
\* the clock read at t (line 113): the error returned, or on to ur.Activate
Activate(u, token, failed, t) ==
    IF failed THEN [pc |-> "return", err |-> ErrDB]
    ELSE IF u = NoUser THEN [pc |-> "return", err |-> ErrNoRows]
    ELSE IF IsActive(u) THEN [pc |-> "return", err |-> "user already active"]
    ELSE IF token # u.activateToken THEN [pc |-> "return", err |-> "invalid token"]
    ELSE IF ~(u.updatedAt + activateWindow > t) THEN [pc |-> "return", err |-> "token expired"]
    ELSE [pc |-> "Activate", err |-> ""]

\* Login without the IsActive check of line 130
Login_NoActiveCheck(us, email, password, fault, t0, t1, t2, t3, t4) ==
    LET u == GetByEmail(us, email)
        fail(e) == [err |-> e, users |-> us, tok |-> NoToken, cookie |-> NoCookie]
    IN  IF fault = "GetByEmail" THEN fail(ErrDB)
        ELSE IF u = NoUser THEN fail(ErrNoRows)
        ELSE IF Authenticate(u, password) # "" THEN fail(Authenticate(u, password))
        ELSE IF fault = "GenerateAccessToken" THEN fail(ErrSign)
        ELSE IF fault = "GenerateRefreshToken" THEN fail(ErrSign)
        ELSE [err |-> "", users |-> us,
              tok |-> GenerateAccessToken(u, t0, t1),
              cookie |-> [name |-> "refresh-token",
                          value |-> GenerateRefreshToken(u, t2, t3),
                          expires |-> t4 + 3 * 24 * Hour]]

\* Login with the password checked before the account state
Login_PasswordFirst(us, email, password, fault, t0, t1, t2, t3, t4) ==
    LET u == GetByEmail(us, email)
        fail(e) == [err |-> e, users |-> us, tok |-> NoToken, cookie |-> NoCookie]
    IN  IF fault = "GetByEmail" THEN fail(ErrDB)
        ELSE IF u = NoUser THEN fail(ErrNoRows)
        ELSE IF Authenticate(u, password) # "" THEN fail(Authenticate(u, password))
        ELSE IF ~IsActive(u) THEN fail("user inactive")
        ELSE IF fault = "GenerateAccessToken" THEN fail(ErrSign)
        ELSE IF fault = "GenerateRefreshToken" THEN fail(ErrSign)
        ELSE [err |-> "", users |-> us,
              tok |-> GenerateAccessToken(u, t0, t1),
              cookie |-> [name |-> "refresh-token",
                          value |-> GenerateRefreshToken(u, t2, t3),
                          expires |-> t4 + 3 * 24 * Hour]]

\* Login that hands out the access token it has already minted when minting
\* the refresh token fails
Login_KeepsAccessToken(us, email, password, fault, t0, t1, t2, t3, t4) ==
    LET u == GetByEmail(us, email)
        fail(e) == [err |-> e, users |-> us, tok |-> NoToken, cookie |-> NoCookie]
    IN  IF fault = "GetByEmail" THEN fail(ErrDB)
        ELSE IF u = NoUser THEN fail(ErrNoRows)
        ELSE IF ~IsActive(u) THEN fail("user inactive")
        ELSE IF Authenticate(u, password) # "" THEN fail(Authenticate(u, password))
        ELSE IF fault = "GenerateAccessToken" THEN fail(ErrSign)
        ELSE IF fault = "GenerateRefreshToken"
        THEN [fail(ErrSign) EXCEPT !.tok = GenerateAccessToken(u, t0, t1)]
        ELSE [err |-> "", users |-> us,
              tok |-> GenerateAccessToken(u, t0, t1),
              cookie |-> [name |-> "refresh-token",
                          value |-> GenerateRefreshToken(u, t2, t3),
                          expires |-> t4 + 3 * 24 * Hour]]

\* Login that stamps the row it has read with the time of the login
Login_TouchesRow(us, email, password, fault, t0, t1, t2, t3, t4) ==
    LET u == GetByEmail(us, email)
        fail(e) == [err |-> e, users |-> us, tok |-> NoToken, cookie |-> NoCookie]
        seen == {IF r.id = u.id THEN [r EXCEPT !.updatedAt = t0 + 1] ELSE r : r \in us}
    IN  IF fault = "GetByEmail" THEN fail(ErrDB)
        ELSE IF u = NoUser THEN fail(ErrNoRows)
        ELSE IF ~IsActive(u) THEN [fail("user inactive") EXCEPT !.users = seen]
        ELSE IF Authenticate(u, password) # "" THEN fail(Authenticate(u, password))
        ELSE IF fault = "GenerateAccessToken" THEN fail(ErrSign)
        ELSE IF fault = "GenerateRefreshToken" THEN fail(ErrSign)
        ELSE [err |-> "", users |-> seen,
              tok |-> GenerateAccessToken(u, t0, t1),
              cookie |-> [name |-> "refresh-token",
                          value |-> GenerateRefreshToken(u, t2, t3),
                          expires |-> t4 + 3 * 24 * Hour]]

\* the clock is read at t0, t1 (access token), t2, t3 (refresh token) and
\* t4 (cookie.Expires)
Login(us, email, password, fault, t0, t1, t2, t3, t4) ==
    LET u == GetByEmail(us, email)
        fail(e) == [err |-> e, users |-> us, tok |-> NoToken, cookie |-> NoCookie]
    IN  IF fault = "GetByEmail" THEN fail(ErrDB)
        ELSE IF u = NoUser THEN fail(ErrNoRows)
        ELSE IF ~IsActive(u) THEN fail("user inactive")
        ELSE IF Authenticate(u, password) # "" THEN fail(Authenticate(u, password))
        ELSE IF fault = "GenerateAccessToken" THEN fail(ErrSign)
        ELSE IF fault = "GenerateRefreshToken" THEN fail(ErrSign)
        ELSE [err |-> "", users |-> us,
              tok |-> GenerateAccessToken(u, t0, t1),
              cookie |-> [name |-> "refresh-token",
                          value |-> GenerateRefreshToken(u, t2, t3),
                          expires |-> t4 + 3 * 24 * Hour]]

\* Refresh without the lookup of line 176: the claim alone decides
Refresh_NoLookup(us, token, fault, t0, t1, t2) ==
    LET got == GetUserIDFromJWT(token, t0)
        fail(e, uid) == [err |-> e, users |-> us, uid |-> uid, tok |-> NoToken]
    IN  IF got.err # "" THEN fail(got.err, 0)
        ELSE IF fault = "GenerateAccessToken" THEN fail(ErrSign, got.uid)
        ELSE [err |-> "", users |-> us, uid |-> got.uid,
              tok |-> GenerateAccessToken([NoUser EXCEPT !.id = got.uid], t1, t2)]

Refresh(us, token, fault, t0, t1, t2) ==
    LET got == GetUserIDFromJWT(token, t0)
        u   == Get(us, got.uid)
        fail(e, uid) == [err |-> e, users |-> us, uid |-> uid, tok |-> NoToken]
    IN  IF got.err # "" THEN fail(got.err, 0)
        ELSE IF fault = "Get" THEN fail(ErrDB, got.uid)
        ELSE IF u = NoUser THEN fail(ErrNoRows, got.uid)
        ELSE IF fault = "GenerateAccessToken" THEN fail(ErrSign, got.uid)
        ELSE [err |-> "", users |-> us, uid |-> got.uid,
              tok |-> GenerateAccessToken(u, t1, t2)]

Get_(us, uid, fault) ==
    LET u == Get(us, uid) IN
    IF fault = "Get" THEN [err |-> ErrDB, users |-> us, user |-> NoUser]
    ELSE IF u = NoUser THEN [err |-> ErrNoRows, users |-> us, user |-> NoUser]
    ELSE [err |-> "", users |-> us, user |-> u]

(***************************************************************************)
(* middleware/auth_middleware.go and handler/user_handler.go               *)
(***************************************************************************)
\* userHandler.GetMe with the user id the middleware left in the context
GetMe(us, uid, fault) ==
    LET got == Get_(us, uid, fault) IN
    [err |-> got.err, users |-> got.users, handled |-> TRUE, uid |-> uid,
     email |-> got.user.email]

\* AuthMiddleware(jwter)(GetMe): next runs only when SetAuthToContext
\* returns no error
AuthMiddleware(us, tok, fault, t) ==
    LET auth == SetAuthToContext(tok, t) IN
    IF auth.err # ""
    THEN [err |-> auth.err, users |-> us, handled |-> FALSE, uid |-> 0, email |-> ""]
    ELSE GetMe(us, auth.uid, fault)

(***************************************************************************)
(* The client: what it can send as a JWT.                                  *)
(***************************************************************************)
\* a token that was not signed with the service's key
ForgedToken == [sig |-> "forged", iss |-> issClaim, sub |-> refreshSubClaim,
                iat |-> 0, exp |-> 2 * expRefresh, user_id |-> JSONNumber(1)]

\* where the JWT of a request comes from: the access token or the cookie
\* the client was given, a forgery, or nothing at all
Sources == {"bearer", "cookie", "forged", "none"}

TokenFrom(src) ==
    CASE src = "bearer" -> bearer
      [] src = "cookie" -> cookie.value
      [] src = "forged" -> ForgedToken
      [] OTHER          -> NoToken

Holds(src) ==
    /\ src = "bearer" => bearer # NoToken
    /\ src = "cookie" => cookie # NoCookie

(***************************************************************************)
(* The state machine: the clock, one action per collaborator call of       *)
(* PreRegister and Activate, and one action per Login, Refresh and GetMe   *)
(* request, which read the table once.  Every request runs on its own      *)
(* goroutine, so the actions come in any order.  res is what the step just *)
(* taken returned to a client.                                             *)
(***************************************************************************)
Init ==
    /\ users = {}
    /\ nextID = 1
    /\ outbox = NoMail
    /\ now = 0
    /\ ticks = 0
    /\ bearer = NoToken
    /\ cookie = NoCookie
    /\ res = NoRes
    /\ calls = [w \in Workers |-> Idle]
    /\ requests = 0
    /\ overlapped = FALSE

\* the clock moves
Tick(d) ==
    /\ ticks < MaxTicks
    /\ now' = now + d
    /\ ticks' = ticks + 1
    /\ res' = NoRes
    /\ UNCHANGED <<calls, users, nextID, outbox, bearer, cookie, requests, overlapped>>

\* the clock moves to t during a request
ClockTo(t) ==
    /\ t > now => ticks < MaxTicks
    /\ now' = t
    /\ ticks' = IF t > now THEN ticks + 1 ELSE ticks

\* a PreRegister or Activate call is in progress
Busy == \E w \in Workers : calls[w] # Idle

\* a request is taken, whatever the calls in progress are doing
Take ==
    /\ requests < MaxRequests
    /\ requests' = requests + 1
    /\ overlapped' = (overlapped \/ Busy)

\* worker w takes a POST /api/auth/register/initial request
BeginPreRegister(w, email, pw, salt, activeToken) ==
    /\ Take
    /\ calls[w] = Idle
    /\ calls' = [calls EXCEPT ![w] = [Idle EXCEPT !.op = "PreRegister", !.pc = "GetByEmail",
                                                   !.email = email, !.pw = pw, !.salt = salt,
                                                   !.activeToken = activeToken]]
    /\ res' = NoRes
    /\ UNCHANGED <<users, nextID, outbox, now, ticks, bearer, cookie>>

\* worker w takes a POST /api/auth/register/complete request
BeginActivate(w, email, token) ==
    /\ Take
    /\ calls[w] = Idle
    /\ calls' = [calls EXCEPT ![w] = [Idle EXCEPT !.op = "Activate", !.pc = "GetByEmail",
                                                   !.email = email, !.activeToken = token]]
    /\ res' = NoRes
    /\ UNCHANGED <<users, nextID, outbox, now, ticks, bearer, cookie>>

\* the call of worker w returns err, the collaborator calls `made` added
\* to its log; fault: what failed, "none" when nothing did
Return(w, u, at, made, fault, err) ==
    LET c == calls[w] IN
    /\ calls' = [calls EXCEPT ![w] = Idle]
    /\ res' = [Result(c.op, c.email, c.activeToken, NoToken, at, u, "none", err,
                       0, NoToken, NoCookie, FALSE)
                EXCEPT !.salt = c.salt, !.did = c.did \o made, !.fault = fault]

\* the call of worker w goes on to the collaborator call pc
Goto(w, pc, u, at, made) ==
    /\ calls' = [calls EXCEPT ![w].pc = pc, ![w].u = u, ![w].at = at,
                              ![w].did = calls[w].did \o made]
    /\ res' = NoRes

\* a collaborator call and whether it failed, as the call log and the
\* fault of a result have it
Made(name, failed) == <<IF failed THEN Failed(name) ELSE Ok(name)>>
FaultOf(name, failed) == IF failed THEN name ELSE "none"

\* uu.ur.GetByEmail (lines 31 and 97): a row of the email, if the table has
\* one, and what PreRegister or Activate decides on it
StepGetByEmail(w, failed) ==
    /\ calls[w].pc = "GetByEmail"
    /\ \E u \in (IF failed THEN {NoUser} ELSE Lookup(users, calls[w].email)) :
          LET c  == calls[w]
              to == IF c.op = "PreRegister" THEN PreRegister(u, failed)
                    ELSE Activate(u, c.activeToken, failed, now)
          IN  IF to.pc = "return"
              THEN Return(w, u, now, Made("GetByEmail", failed),
                          FaultOf("GetByEmail", failed), to.err)
              ELSE Goto(w, to.pc, u, now, Made("GetByEmail", failed))
    /\ UNCHANGED <<users, nextID, outbox, now, ticks, bearer, cookie, requests, overlapped>>

\* uu.ur.Delete(ctx, u.ID) of the row the lookup returned (line 47)
StepDelete(w, failed) ==
    LET c == calls[w] IN
    /\ c.pc = "Delete"
    /\ IF failed
       THEN users' = users /\ Return(w, c.u, c.at, Made("Delete", TRUE), "Delete", ErrDB)
       ELSE users' = Delete(users, c.u.id)
            /\ Goto(w, "PreRegister", c.u, c.at, Made("Delete", FALSE))
    /\ UNCHANGED <<nextID, outbox, now, ticks, bearer, cookie, requests, overlapped>>

\* preRegister from its entry to uu.ur.PreRegister (lines 54-75): the
\* hashing, then the insert while the table has an id left
StepPreRegister(w, fault) ==
    LET c == calls[w]
        r == preRegister(users, nextID, c.email, c.pw, c.salt, c.activeToken, fault, now)
    IN  /\ c.pc = "PreRegister"
        /\ fault # "CreateHashedPassword" => nextID <= MaxUsers
        /\ users' = r.users
        /\ nextID' = r.nextID
        /\ IF r.pc = "return"
           THEN Return(w, c.u, c.at, r.did, fault, r.err)
           ELSE Goto(w, r.pc, c.u, c.at, r.did)
        /\ UNCHANGED <<outbox, now, ticks, bearer, cookie, requests, overlapped>>

\* uu.mailer.SendWithActivateToken (line 77), and preRegister returns
StepSendWithActivateToken(w, failed) ==
    LET c == calls[w]
        r == preRegisterMail(users, outbox, c.email, c.activeToken, failed)
    IN  /\ c.pc = "SendWithActivateToken"
        /\ users' = r.users
        /\ outbox' = r.outbox
        /\ Return(w, c.u, c.at, Made("SendWithActivateToken", failed),
                  FaultOf("SendWithActivateToken", failed), r.err)
        /\ UNCHANGED <<nextID, now, ticks, bearer, cookie, requests, overlapped>>

\* uu.ur.Activate(ctx, u) on the row the lookup returned (line 117), and
\* Activate returns
StepActivate(w, failed) ==
    LET c == calls[w] IN
    /\ c.pc = "Activate"
    /\ users' = IF failed THEN users ELSE RepoActivate(users, c.u, now)
    /\ Return(w, c.u, c.at, Made("Activate", failed), FaultOf("Activate", failed),
              IF failed THEN ErrDB ELSE "")
    /\ UNCHANGED <<nextID, outbox, now, ticks, bearer, cookie, requests, overlapped>>

\* userHandler.Login; u is the row the lookup of line 125 returns; d1, d2:
\* the clock's advance between the two readings of generateJWT, for the
\* access and for the refresh token
HandleLogin(email, password, fault, d1, d2) ==
    /\ Take
    /\ \E u \in Lookup(users, email) :
        LET t1   == now + d1
            t3   == t1 + d2
            seen == Seen(users, email, u)
            r    == Login(seen, email, password, fault, now, t1, t1, t3, t3)
        IN  /\ r.err # "" => d1 = 0 /\ d2 = 0
            /\ ClockTo(t3)
            /\ bearer' = IF r.err = "" THEN r.tok ELSE bearer
            /\ cookie' = IF r.err = "" THEN r.cookie ELSE cookie
            /\ users' = (users \ seen) \cup r.users
            /\ res' = Result("Login", email, password, NoToken, now,
                              IF fault = "GetByEmail" THEN NoUser ELSE u,
                              fault, r.err, 0, r.tok, r.cookie, FALSE)
            /\ UNCHANGED <<calls, nextID, outbox>>

\* userHandler.Refresh: without the cookie the usecase is not called
HandleRefresh(src, fault, d) ==
    LET presented == TokenFrom(src)
        r == IF presented = NoToken
             THEN [err |-> "http: named cookie not present", users |-> users,
                   uid |-> 0, tok |-> NoToken]
             ELSE Refresh(users, presented, fault, now, now, now + d)
    IN  /\ Take
        /\ Holds(src)
        /\ r.err # "" => d = 0
        /\ ClockTo(now + d)
        /\ bearer' = IF r.err = "" THEN r.tok ELSE bearer
        /\ users' = r.users
        /\ res' = Result("Refresh", "", src, presented, now, Get(users, r.uid),
                          fault, r.err, r.uid, r.tok, NoCookie, FALSE)
        /\ UNCHANGED <<calls, nextID, outbox, cookie>>

\* GET /api/restricted/user/me: AuthMiddleware, then userHandler.GetMe
HandleGetMe(src, fault) ==
    LET presented == TokenFrom(src)
        r == AuthMiddleware(users, presented, fault, now)
    IN  /\ Take
        /\ Holds(src)
        /\ users' = r.users
        /\ res' = Result("GetMe", r.email, src, presented, now, Get(users, r.uid),
                          fault, r.err, r.uid, NoToken, NoCookie, r.handled)
        /\ UNCHANGED <<calls, nextID, outbox, now, ticks, bearer, cookie>>

\* every request runs on its own goroutine: a request is taken, a call in
\* progress makes its next collaborator call, or the clock moves, in any
\* order
Next ==
    \/ \E d \in Steps : Tick(d)
    \/ \E w \in Workers, email \in Emails, pw \in Passwords, draw \in Draws :
            BeginPreRegister(w, email, pw, draw.salt, draw.activeToken)
    \/ \E w \in Workers, email \in Emails, token \in Secrets :
            BeginActivate(w, email, token)
    \/ \E w \in Workers, failed \in BOOLEAN : StepGetByEmail(w, failed)
    \/ \E w \in Workers, failed \in BOOLEAN : StepDelete(w, failed)
    \/ \E w \in Workers, fault \in {"none", "CreateHashedPassword", "PreRegister"} :
            StepPreRegister(w, fault)
    \/ \E w \in Workers, failed \in BOOLEAN : StepSendWithActivateToken(w, failed)
    \/ \E w \in Workers, failed \in BOOLEAN : StepActivate(w, failed)
    \/ \E email \in Emails, pw \in Attempts,
          fault \in {"none", "GetByEmail", "GenerateAccessToken", "GenerateRefreshToken"},
          d1 \in Drift, d2 \in Drift :
            HandleLogin(email, pw, fault, d1, d2)
    \/ \E src \in Sources, fault \in {"none", "Get", "GenerateAccessToken"}, d \in Drift :
            HandleRefresh(src, fault, d)
    \/ \E src \in Sources, fault \in {"none", "Get"} :
            HandleGetMe(src, fault)

Spec == Init /\ [][Next]_vars

(***************************************************************************)
(* Refresh and the restricted route as functions of their inputs: the      *)
(* table is any table the service can have, and the client holds any token *)
(* signed with the service's key, whoever built its claims.                *)
(***************************************************************************)
\* user_id claims: absent, the string "1", 1, 2, -1 and 1.5
Claims == {[type |-> "nil", val |-> 0, frac |-> 0],
           [type |-> "string", val |-> 1, frac |-> 0],
           JSONNumber(1), JSONNumber(2), JSONNumber(-1),
           [JSONNumber(1) EXCEPT !.frac = 5]}

SignedTokens ==
    {[sig |-> "RS256", iss |-> issClaim, sub |-> sub, iat |-> 0,
      exp |-> IF sub = accessSubClaim THEN expAccess ELSE expRefresh,
      user_id |-> c] : sub \in {accessSubClaim, refreshSubClaim}, c \in Claims}

\* the one account of the table, if there is one: Pending or Active, and
\* under its first id or under the id of a later registration
Tables ==
    {{}} \cup
    {{[NoUser EXCEPT !.id = id, !.email = email, !.salt = d.salt,
                     !.password = CreateHashedPassword(pw, d.salt, FALSE).hashed,
                     !.activateToken = d.activeToken, !.state = st]} :
        id \in 1..MaxUsers, email \in Emails, pw \in Passwords,
        d \in {d \in Draws : d.salt = "salt1"}, st \in {UserInactive, UserActive}}

\* the clock: around the end of either lifetime
TokenTimes == {0, expAccess - 1, expAccess, expRefresh - 1, expRefresh}

InitTokens ==
    /\ users \in Tables
    /\ nextID = MaxUsers + 1
    /\ outbox = NoMail
    /\ now \in TokenTimes
    /\ ticks = 0
    /\ \E tok \in SignedTokens :
          /\ bearer = tok
          /\ cookie = [name |-> "refresh-token", value |-> tok, expires |-> tok.exp]
    /\ res = NoRes
    /\ calls = [w \in Workers |-> Idle]
    /\ requests = 0
    /\ overlapped = FALSE

NextTokens ==
    \/ \E email \in Emails, pw \in Attempts,
          fault \in {"none", "GetByEmail", "GenerateAccessToken", "GenerateRefreshToken"},
          d1 \in Drift, d2 \in Drift :
            HandleLogin(email, pw, fault, d1, d2)
    \/ \E src \in Sources, fault \in {"none", "Get", "GenerateAccessToken"}, d \in Drift :
            HandleRefresh(src, fault, d)
    \/ \E src \in Sources, fault \in {"none", "Get"} :
            HandleGetMe(src, fault)

SpecTokens == InitTokens /\ [][NextTokens]_vars

(***************************************************************************)
(* Properties.                                                             *)
(***************************************************************************)
Pending(u) == u # NoUser /\ ~IsActive(u)
Range(seq) == {seq[i] : i \in 1..Len(seq)}
Served(op) == res.op = op /\ res.fault = "none"
UID(tok)   == tok.user_id.val

\* C1: class separation in both directions: an access token (the bearer
\* token, minted by GenerateAccessToken) is rejected by Refresh
\* (GetUserIDFromJWT / parseJWT), and a refresh token (the cookie, minted by
\* GenerateRefreshToken) is rejected by the restricted route
\* (SetAuthToContext / parseRequest).
C1_ClassSeparation ==
    /\ (res.op = "Refresh" /\ res.arg = "bearer") => res.err = "failed to parse token"
    /\ (res.op = "GetMe" /\ res.arg = "cookie") =>
            res.err = "failed to parse request" /\ ~res.handled

\* C2: issue/verify round trip per class: Login's access token has
\* sub = access-token and its refresh token sub = refresh-token, and each,
\* verified under its own class before its expiry, yields the account id
\* it was issued for.
C2_RoundTrip ==
    /\ (res.op = "Login" /\ res.err = "") =>
            /\ res.tok.sub = accessSubClaim
            /\ res.cookie.value.sub = refreshSubClaim
            /\ UID(res.tok) = res.acct.id
            /\ UID(res.cookie.value) = res.acct.id
    /\ (res.op = "GetMe" /\ res.arg = "bearer" /\ res.at < res.presented.exp) =>
            res.handled /\ res.uid = UID(res.presented)
    /\ (res.op = "Refresh" /\ res.arg = "cookie" /\ res.at < res.presented.exp) =>
            res.err \in {"", ErrDB, ErrNoRows} /\ res.uid = UID(res.presented)

\* C3: end-to-end lifecycle: after PreRegister, Activate and Login, Refresh
\* with the refresh token Login returned (the cookie), before its expiry,
\* succeeds and returns a new access token for the same account id.
C3_Lifecycle ==
    (Served("Refresh") /\ res.arg = "cookie" /\ res.at < res.presented.exp) =>
        /\ res.err = ""
        /\ res.tok # NoToken
        /\ UID(res.tok) = UID(res.presented)
        /\ \E u \in users : u.id = UID(res.tok)

C5_InTime(r) ==
    /\ r.op = "Activate" /\ r.fault = "none"
    /\ Pending(r.acct) /\ r.arg = r.acct.activateToken

\* Activate succeeds: it goes on to ur.Activate and returns no error
C5_Succeeds(r) ==
    r.err = "" /\ r.did = <<Ok("GetByEmail"), Ok("Activate")>>

\* Activate fails with the expired-token error, writing nothing
C5_Expired(r) ==
    r.err = "token expired" /\ r.did = <<Ok("GetByEmail")>>

\* C5 as stated: for a Pending account and the correct secret, Activate
\* succeeds exactly when now <= updated_at + 30 minutes (so also at exactly
\* 30 minutes) and fails with the expired-token error after that.
C5_WindowInclusive ==
    C5_InTime(res) =>
        /\ res.at <= res.acct.updatedAt + 30 * Minute => C5_Succeeds(res)
        /\ res.at > res.acct.updatedAt + 30 * Minute =>
              C5_Expired(res) /\ res.acct \in users

\* C5 as amended: for a Pending account and the correct secret, Activate
\* succeeds exactly when now < updated_at + 30 minutes, and fails with the
\* expired-token error, the account left Pending, when
\* now >= updated_at + 30 minutes (so also at exactly 30 minutes).
C5_WindowExclusive ==
    C5_InTime(res) =>
        /\ res.at < res.acct.updatedAt + 30 * Minute => C5_Succeeds(res)
        /\ res.at >= res.acct.updatedAt + 30 * Minute =>
              C5_Expired(res) /\ res.acct \in users

C5_Witness ==
    /\ C5_InTime(res)
    /\ res.at = res.acct.updatedAt + 30 * Minute
    /\ C5_Expired(res)

\* the steps a row u of the table can take: it stays as it is, or it is
\* Pending and the ur.Activate of an Activate call for its email makes it
\* Active, or it is Pending and the ur.Delete of a PreRegister call for its
\* email removes it
C6_Transition(u) ==
    \/ u \in users'
    \/ /\ Pending(u)
       /\ res'.op = "Activate" /\ res'.err = "" /\ res'.email = u.email
       /\ \E v \in users' : v.id = u.id /\ v.email = u.email /\ IsActive(v)
    \/ /\ Pending(u)
       /\ \E w \in Workers : /\ calls[w].op = "PreRegister"
                              /\ calls[w].pc = "Delete"
                              /\ calls[w].email = u.email
       /\ \A v \in users' : v.id # u.id

\* a row that appears is a Pending one, inserted by a PreRegister call
C6_Created ==
    \A v \in users' :
        v.id \notin {w.id : w \in users}
            => /\ Pending(v)
               /\ \E w \in Workers : /\ calls[w].op = "PreRegister"
                                      /\ calls[w].pc = "PreRegister"
                                      /\ calls[w].email = v.email

\* when a PreRegister call that has deleted a Pending row returns, a new
\* Pending row of the email is in the table; orphan: or the hashing or the
\* insert failed and the email has no row
C6_Replaced(orphan) ==
    (res'.op = "PreRegister" /\ Pending(res'.acct) /\ Ok("Delete") \in Range(res'.did))
        => \/ \E v \in users' : /\ v.email = res'.email
                                 /\ Pending(v)
                                 /\ v.id > res'.acct.id
           \/ /\ orphan
              /\ \/ res'.err = ErrDB /\ res'.fault = "PreRegister"
                 \/ res'.err = "hash error" /\ res'.fault = "CreateHashedPassword"
              /\ \A v \in users' : v.email # res'.email

\* C6 as stated: in a sequential history (no request taken while a call is
\* in progress: overlapped is FALSE), an Active
\* account stays as it is, is never deleted and never Pending again; the
\* only transitions of an account are Pending -> Active by Activate, and
\* Pending -> deleted and replaced by a new Pending account by a
\* PreRegister of the same email.
C6_OnlyTwoTransitions ==
    [][~overlapped' =>
            C6_Created /\ C6_Replaced(FALSE) /\ \A u \in users : C6_Transition(u)]_vars

\* C6 as amended: as stated, with one more transition: a Pending account is
\* deleted and not replaced when the hashing of the password or the insert
\* that follows the delete of a PreRegister of the same email fails.
C6_StateMachine ==
    [][~overlapped' =>
            C6_Created /\ C6_Replaced(TRUE) /\ \A u \in users : C6_Transition(u)]_vars

C6_Witness ==
    /\ ~overlapped
    /\ res.op = "PreRegister" /\ res.err = "user already active"
    /\ IsActive(res.acct) /\ res.acct \in users /\ res.acct.id >= 2

\* C7 as stated, first half: of two successive PreRegister calls for a
\* still-Pending email (the second finds the row of the first, and no
\* request overlaps a call), the second stores an activation secret
\* different from the one it replaces.
C7_SecretsDiffer ==
    (~overlapped /\ res.op = "PreRegister" /\ Pending(res.acct) /\ res.err = "") =>
        res.arg # res.acct.activateToken

\* C7 as amended: after the second of two successive PreRegister calls for
\* a still-Pending email the table holds one row for the email, a new
\* Pending one with the secret of this call (the two secrets are
\* independent draws and may be equal); and Activate of a Pending account
\* succeeds within the window with the stored secret and fails with the
\* invalid-token error, the account unchanged, with any other, such as the
\* replaced one when it differs.
C7_LatestSecretOnly ==
    /\ (~overlapped /\ res.op = "PreRegister" /\ Pending(res.acct)
            /\ res.err \in {"", "mail error"}) =>
          /\ \A u \in users : u.email = res.email =>
                /\ u.activateToken = res.arg
                /\ Pending(u)
                /\ u.id # res.acct.id
                /\ u.updatedAt >= res.at
          /\ Cardinality({u \in users : u.email = res.email}) = 1
    /\ (Served("Activate") /\ Pending(res.acct)) =>
          /\ res.arg # res.acct.activateToken =>
                res.err = "invalid token" /\ res.acct \in users
          /\ (res.arg = res.acct.activateToken
               /\ res.at < res.acct.updatedAt + 30 * Minute) => res.err = ""
          /\ res.err = "" => res.arg = res.acct.activateToken

\* the second registration's row, and the first secret is refused
C7_Witness ==
    /\ ~overlapped
    /\ Served("Activate") /\ Pending(res.acct) /\ res.acct.id >= 2
    /\ res.arg # res.acct.activateToken
    /\ res.err = "invalid token"
    /\ outbox.n >= 2

\* C8: lifetimes are exact: exp - iat is 30 minutes for every access token
\* and 72 hours for every refresh token issued.
C8_ExactLifetimes ==
    (res.op \in {"Login", "Refresh"} /\ res.err = "") =>
        /\ res.tok.exp - res.tok.iat = 30 * Minute
        /\ res.op = "Login" =>
              res.cookie.value.exp - res.cookie.value.iat = 72 * Hour

\* C9: the refresh token Login issued at time T (its iat) is accepted by
\* Refresh at every time before T + 72h and rejected at every time after.
C9_RefreshWindow ==
    (Served("Refresh") /\ res.arg = "cookie") =>
        /\ res.at < res.presented.iat + 72 * Hour => res.err = ""
        /\ res.at > res.presented.iat + 72 * Hour => res.err # ""

\* C10: Login against a Pending account fails with the inactive-account
\* error whatever the password, and returns no access token and no cookie.
C10_PendingLoginFails ==
    (Served("Login") /\ Pending(res.acct)) =>
        /\ res.err = "user inactive"
        /\ res.tok = NoToken
        /\ res.cookie = NoCookie
        /\ res.acct \in users

C10_Witness ==
    /\ Served("Login") /\ Pending(res.acct)
    /\ Authenticate(res.acct, res.arg) = ""
    /\ res.err = "user inactive"

\* C11: for any validly-signed, non-expired refresh-class token, Refresh
\* returns a new access token for the token's user_id, whether or not a row
\* with that id is still in the table (the claim as stated).
WellFormedID(tok) ==
    tok.user_id.type = "number" /\ tok.user_id.frac = 0 /\ tok.user_id.val >= 0

C11_TrustsClaimAlone ==
    (Served("Refresh") /\ parseJWT(res.presented, res.at) /\ WellFormedID(res.presented))
        => /\ res.err = ""
           /\ res.tok # NoToken
           /\ UID(res.tok) = UID(res.presented)

\* C11 (amended): Refresh looks the account up by the token's user_id; with
\* a row of that id in the table it returns an access token for that id,
\* Active or not, and without one it fails with the not-found error and
\* returns no token.
C11_RefreshLooksUp ==
    (Served("Refresh") /\ parseJWT(res.presented, res.at) /\ WellFormedID(res.presented))
        => LET u == Get(users, UID(res.presented)) IN
           /\ u = NoUser => res.err = ErrNoRows /\ res.tok = NoToken
           /\ u # NoUser => /\ res.err = ""
                            /\ Verify(res.tok, accessSubClaim, res.at)
                            /\ UID(res.tok) = u.id

\* a refresh-class token whose account was deleted and registered again
\* under another id is refused
C11_Witness ==
    /\ Served("Refresh") /\ parseJWT(res.presented, res.at)
    /\ WellFormedID(res.presented)
    /\ users # {}
    /\ Get(users, UID(res.presented)) = NoUser
    /\ res.err = ErrNoRows

\* C20: for a validly-signed token of the right class, an id comes out of
\* the token only when user_id is a non-negative integer, and it is that
\* integer; an absent, non-numeric, negative or fractional user_id gives one
\* of the two malformed-claim errors.
MalformedClaim == {"failed to get user_id from token", "get invalid user_id"}

RightClass(r) ==
    \/ r.op = "Refresh" /\ parseJWT(r.presented, r.at)
    \/ r.op = "GetMe" /\ parseRequest(r.presented, r.at)

C20_NoCoercion ==
    RightClass(res)
        => /\ WellFormedID(res.presented)
                => res.err \notin MalformedClaim /\ res.uid = UID(res.presented)
           /\ ~WellFormedID(res.presented) => res.err \in MalformedClaim

\* C12: a PreRegister whose mail cannot be sent returns an error, sends
\* nothing and undoes nothing: the row it has inserted stays as the insert
\* left it; a subsequent PreRegister for the email (no request overlapping
\* a call) that gets to its mail, sent or not, has removed that row and
\* inserted a Pending row with the secret and the salt generated by this
\* call, the only row of the email.
MailFailed(r) == r.op = "PreRegister" /\ r.fault = "SendWithActivateToken"

\* the row of `email` in `us` is the one a PreRegister answered by r made
MadeBy(us, r, id) ==
    LET u == GetByEmail(us, r.email) IN
    /\ Pending(u)
    /\ u.id = id
    /\ u.activateToken = r.arg
    /\ u.salt = r.salt
    /\ RowsOf(us, r.email) = {u}

C12_MailFailureLeavesRow ==
    [][ /\ MailFailed(res')
            => /\ res'.err # ""
               /\ Ok("PreRegister") \in Range(res'.did)
               /\ outbox' = outbox
               /\ users' = users
               /\ ~overlapped' => MadeBy(users', res', nextID' - 1)
        /\ (~overlapped' /\ res'.op = "PreRegister" /\ Pending(res'.acct)
                /\ res'.err \in {"", "mail error"})
            => /\ res'.acct \notin users'
               /\ MadeBy(users', res', nextID' - 1)
               /\ nextID' - 1 > res'.acct.id
      ]_vars

\* two rows were inserted and one mail was sent, the one of the request just
\* served: the row it found and replaced is the one whose mail had failed
C12_Witness ==
    /\ ~overlapped
    /\ res.op = "PreRegister" /\ res.err = ""
    /\ Pending(res.acct) /\ res.acct.id = 1
    /\ res.acct.activateToken # res.arg /\ res.acct.salt # res.salt
    /\ nextID = 3 /\ outbox.n = 1
    /\ MadeBy(users, res, 2)

\* C13: PreRegister for an email whose lookup returns an Active account
\* answers "user already active", makes no other collaborator call and
\* changes neither the table nor the id counter nor the mails sent,
\* whatever runs at the same time.
C13_ActiveUntouched ==
    [][ (res'.op = "PreRegister" /\ IsActive(res'.acct))
            => /\ res'.err = "user already active"
               /\ res'.did = <<Ok("GetByEmail")>>
               /\ UNCHANGED <<users, nextID, outbox>>
      ]_vars

C13_Witness ==
    /\ overlapped
    /\ res.op = "PreRegister" /\ res.err = "user already active"
    /\ IsActive(res.acct) /\ res.acct \in users
    /\ outbox.n = 1 /\ outbox.token = res.acct.activateToken
    /\ res.arg # res.acct.activateToken

\* C16: Activate answers "user already active" for an Active account
\* whatever the token and the time, "invalid token" for a Pending account
\* and another token whatever the time, and "token expired" only then;
\* a failing Activate makes no call but the lookup and leaves the table as
\* it was, and Activate again after a success (no request overlapping a
\* call) fails with "user already active", the account still Active.
C16_ActivateOrder ==
    [][ (res'.op = "Activate" /\ res'.fault = "none")
            => LET u == res'.acct IN
               /\ IsActive(u) => res'.err = "user already active" /\ u \in users'
               /\ (Pending(u) /\ u.activateToken # res'.arg) => res'.err = "invalid token"
               /\ (Pending(u) /\ u.activateToken = res'.arg
                      /\ res'.at >= u.updatedAt + activateWindow)
                     => res'.err = "token expired"
               /\ res'.err # "" => /\ users' = users
                                   /\ res'.did = <<Ok("GetByEmail")>>
                                   /\ u = NoUser \/ u \in users'
               /\ (res'.err = "" /\ ~overlapped')
                     => /\ RowsOf(users', res'.email) = {GetByEmail(users', res'.email)}
                        /\ IsActive(GetByEmail(users', res'.email))
                        /\ GetByEmail(users', res'.email).id = u.id
      ]_vars

\* an Active account, another token and the window long over
C16_Witness ==
    /\ ~overlapped
    /\ res.op = "Activate" /\ res.err = "user already active"
    /\ IsActive(res.acct) /\ res.acct \in users
    /\ res.arg # res.acct.activateToken
    /\ res.at >= res.acct.updatedAt + activateWindow

\* C17: Login returns an access token and the refresh cookie, both, exactly
\* when the account exists, is Active, the password matches and both tokens
\* could be minted; otherwise it returns an error, no token and no cookie.
C17_AllOrNothing ==
    res.op = "Login"
        => /\ res.err = "" <=> /\ res.acct # NoUser
                               /\ IsActive(res.acct)
                               /\ Authenticate(res.acct, res.arg) = ""
                               /\ res.fault = "none"
           /\ res.err = "" => /\ res.tok # NoToken
                              /\ res.cookie # NoCookie
                              /\ res.cookie.value # NoToken
                              /\ bearer = res.tok /\ cookie = res.cookie
           /\ res.err # "" => res.tok = NoToken /\ res.cookie = NoCookie

\* the access token was minted, the refresh token was not
C17_Witness ==
    /\ res.op = "Login" /\ res.fault = "GenerateRefreshToken"
    /\ IsActive(res.acct) /\ Authenticate(res.acct, res.arg) = ""
    /\ res.err = ErrSign /\ res.tok = NoToken /\ res.cookie = NoCookie

\* C18: when the lookup by email fails with another error than not-found,
\* PreRegister returns it and neither deletes nor inserts nor mails; an
\* insert that comes straight after the lookup, with no Delete, comes after
\* a not-found lookup only; and after a not-found lookup PreRegister never
\* deletes: it inserts a Pending row and mails, unless the hashing of the
\* password fails, and then it returns that error with no other call made.
C18_LookupFailure ==
    [][ res'.op = "PreRegister"
            => /\ res'.did[1] = Failed("GetByEmail")
                    => /\ res'.err = ErrDB
                       /\ Len(res'.did) = 1
                       /\ UNCHANGED <<users, nextID, outbox>>
               /\ (Len(res'.did) >= 2 /\ res'.did[2][1] = "PreRegister")
                    => res'.did[1] = Ok("GetByEmail") /\ res'.acct = NoUser
               /\ (res'.did[1] = Ok("GetByEmail") /\ res'.acct = NoUser)
                    => /\ Ok("Delete") \notin Range(res'.did)
                       /\ Failed("Delete") \notin Range(res'.did)
                       /\ res'.fault = "CreateHashedPassword"
                            => /\ res'.err = "hash error"
                               /\ Len(res'.did) = 1
                               /\ UNCHANGED <<users, nextID, outbox>>
                       /\ res'.fault # "CreateHashedPassword"
                            => res'.did[2][1] = "PreRegister"
                       /\ res'.fault = "none"
                            => /\ res'.err = ""
                               /\ res'.did = <<Ok("GetByEmail"), Ok("PreRegister"),
                                               Ok("SendWithActivateToken")>>
                               /\ outbox' = SendWithActivateToken(outbox, res'.email, res'.arg)
      ]_vars

\* the lookup failed while a Pending row of the email was in the table and
\* another call was in progress
C18_Witness ==
    /\ Busy
    /\ res.op = "PreRegister" /\ res.fault = "GetByEmail" /\ res.err = ErrDB
    /\ Pending(GetByEmail(users, res.email))
    /\ outbox.n = 1 /\ outbox.token # res.arg

\* C19: Login, Refresh and GetMe, and the minting and parsing of tokens in
\* them, leave the table, the id counter and the mails sent as they were.
C19_ReadOnly ==
    [][ res'.op \in {"Login", "Refresh", "GetMe"} => UNCHANGED <<users, nextID, outbox>> ]_vars

\* a request was served for a Pending account and its row is as it was
C19_Witness ==
    /\ res.op \in {"Login", "Refresh"}
    /\ res.err \in {"", "user inactive"}
    /\ Pending(res.acct) /\ res.acct \in users
    /\ res.at > res.acct.updatedAt

\* C14: with PreRegister calls for one email running in parallel, their
\* lookup, delete and insert interleaved, the table never holds two rows of
\* that email.
C14_EmailUnique ==
    \A email \in Emails : Cardinality(RowsOf(users, email)) <= 1

\* C15: with PreRegister and Activate running in parallel, no step removes
\* a row that is Active, and when an Activate returns without error the
\* email has an Active row.
C15_ActiveSurvives ==
    [][ /\ \A u \in users : IsActive(u) => \E v \in users' : v.id = u.id /\ IsActive(v)
        /\ \A w \in Workers :
              (calls[w].op = "Activate" /\ calls[w].pc = "Activate"
                  /\ calls'[w] = Idle /\ res'.err = "")
                  => \E v \in users' : v.email = calls[w].email /\ IsActive(v)
      ]_vars

\* C21: GetMe behind AuthMiddleware runs only for a request whose token is
\* signed with the key, not expired, of the access class and carries a
\* numeric user_id; the id GetMe reads from the context is the user_id of
\* that token; otherwise GetMe does not run and the error is returned.
PassesGate(tok, t) ==
    /\ Verify(tok, accessSubClaim, t)
    /\ tok.user_id.type = "number"

\* the gate alone: who gets to the handler
C21_HandlerGated ==
    res.op = "GetMe"
        => /\ res.handled <=> PassesGate(res.presented, res.at)
           /\ ~res.handled => res.err # "" /\ res.email = ""

\* the id of the context is the number in the token
C21_SameID ==
    (res.op = "GetMe" /\ res.handled)
        => res.uid = res.presented.user_id.val /\ res.presented.user_id.frac = 0

C21_GatedByAccessClass == C21_HandlerGated /\ C21_SameID
====
